---- MODULE Spec2Model ----
(***************************************************************************)
(* The Discord faucet bot of cosmos_discord_faucet.py as a state machine:  *)
(* the per-client rate-limit ledger (ACTIVE_REQUESTS), the daily tally     *)
(* (NETWORKS_DAY_TALLY), the dispatch queue (TRANSACTIONS_QUEUE) and the   *)
(* dispatch worker (process_transactions_queue), one action per handler    *)
(* step between two awaits.                                                *)
(***************************************************************************)
EXTENDS Integers, Sequences, FiniteSets, TLC

VARIABLES
    now,                       \* the wall clock read by time.time() / datetime.today()
    ACTIVE_REQUESTS,           \* client -> network_id -> principal -> entry
    NETWORKS_DAY_TALLY,        \* client -> network_id -> {active_day, day_tally}
    TRANSACTIONS_QUEUE,        \* client -> the asyncio.Queue, a sequence of items
    TRANSACTIONS_QUEUE_TASKS,  \* client -> "None" or "Task"
    put_tasks,                 \* client -> queue.put tasks created and not yet run
    pc,                        \* client -> where the worker coroutine is suspended
    cur,                       \* client -> the worker's locals for the dequeued item
    transactions_csv,          \* the audit file, one entry per written line
    nacc,                      \* client -> number of requests token_request enqueued
    ndeq,                      \* client -> number of items the worker dequeued
    finished,                  \* client -> how the last handled item ended
    worker_tasks,              \* client -> number of worker tasks create_task made
    sent,                      \* client -> network_id -> day and sum of the latest
                               \* day's amounts handed over by tx_send
    admitted,                  \* client -> the requests check_time_limits approved
    tx_send_call,              \* one call of CosmosClient.tx_send: where it stands,
                               \* and what each execute of it came to
    ev                         \* what the last step did, with the state it started from

vars == <<now, ACTIVE_REQUESTS, NETWORKS_DAY_TALLY, TRANSACTIONS_QUEUE,
          TRANSACTIONS_QUEUE_TASKS, put_tasks, pc, cur, transactions_csv,
          nacc, ndeq, finished, worker_tasks, sent, admitted, tx_send_call,
          ev>>

-----------------------------------------------------------------------------
(* Bounds of the model *)

\* accepted $request messages per client
MaxRequests == 3

\* accepted $request messages per client where the daily cap is what counts
MaxCapRequests == 4

-----------------------------------------------------------------------------
(* Configuration: config.toml as loaded into FaucetClient.__init__ *)

CLIENTS == {"dym", "rol"}

\* a client's own chain id: an EVM style id for "dym", a plain one for "rol"
node_chain_id(c) == IF c = "dym" THEN "dym_100-1" ELSE "rol-1"

\* the chain ids a $request may name for a client: its own and one IBC network
NetworkIds(c) == IF c = "dym" THEN {"dym_100-1", "osmo-1"} ELSE {"rol-1", "evm_9-1"}

amount_to_send == 200
amount_to_send_evm == 300
daily_cap == 700
daily_cap_evm == 1000
token_requests_cap == 2
ibc_token_requests_cap == 1
request_timeout == 21600
SecondsPerDay == 86400

\* re.search("^[^_-]+_[0-9]+[_-][0-9]+$", network_id) on the ids of the model
is_evm_network(network_id) == network_id \in {"dym_100-1", "evm_9-1"}

get_amount_to_send(c, network_id) ==
    IF is_evm_network(network_id) THEN amount_to_send_evm ELSE amount_to_send

get_daily_cap(c, network_id) ==
    IF is_evm_network(network_id) THEN daily_cap_evm ELSE daily_cap

get_token_requests_cap(c, network_id) ==
    IF network_id = node_chain_id(c) THEN token_requests_cap ELSE ibc_token_requests_cap

-----------------------------------------------------------------------------
(* Discord members: the Member object and its id are different values *)

Requesters == {"alice", "bob", "carol"}

\* the members holding CORE_TEAM_ROLE_ID
CoreTeam == {"carol"}

\* message.author.id
MemberId(requester) ==
    CASE requester = "alice" -> "id:1"
      [] requester = "bob"   -> "id:2"
      [] OTHER               -> "id:3"

Addresses == {"dym1aaa", "dym1bbb"}

\* datetime.datetime.today().date()
Today(t) == t \div SecondsPerDay

-----------------------------------------------------------------------------
(* Python dicts are functions with a finite domain *)

EmptyDict == [x \in {} |-> 0]

DictSet(d, k, v) == [x \in DOMAIN d \cup {k} |-> IF x = k THEN v ELSE d[x]]

DictDel(d, k) == [x \in DOMAIN d \ {k} |-> d[x]]

-----------------------------------------------------------------------------
(* The rate-limit gate *)

\* the wait shown in the rejection: hours above 120 minutes, else minutes
wait_time(seconds_left) ==
    IF seconds_left > 120 * 60
    THEN [n |-> seconds_left \div 3600, unit |-> "hours"]
    ELSE [n |-> seconds_left \div 60, unit |-> "minutes"]

\* on_time_blocked as it would be if the count alone blocked, whether or not
\* the window of the entry is over
on_time_blocked_no_expiry(requests, cap, requester, message_timestamp) ==
    IF requester \in DOMAIN requests
    THEN LET check_time == requests[requester].check_time
             requests_count == requests[requester].requests_count
         IN  IF requests_count >= cap
             THEN [approved |-> FALSE,
                   seconds_left |-> check_time - message_timestamp,
                   requests |-> requests]
             ELSE IF check_time > message_timestamp
             THEN [approved |-> TRUE, seconds_left |-> 0,
                   requests |-> [requests EXCEPT ![requester].requests_count = @ + 1]]
             ELSE [approved |-> TRUE, seconds_left |-> 0,
                   requests |-> DictDel(requests, requester)]
    ELSE [approved |-> TRUE, seconds_left |-> 0, requests |-> requests]

\* on_time_blocked as it would be with the cap compared off by one
on_time_blocked_past_cap(requests, cap, requester, message_timestamp) ==
    IF requester \in DOMAIN requests
    THEN LET check_time == requests[requester].check_time
             requests_count == requests[requester].requests_count
         IN  IF check_time > message_timestamp /\ requests_count > cap
             THEN [approved |-> FALSE,
                   seconds_left |-> check_time - message_timestamp,
                   requests |-> requests]
             ELSE IF check_time > message_timestamp
             THEN [approved |-> TRUE, seconds_left |-> 0,
                   requests |-> [requests EXCEPT ![requester].requests_count = @ + 1]]
             ELSE [approved |-> TRUE, seconds_left |-> 0,
                   requests |-> DictDel(requests, requester)]
    ELSE [approved |-> TRUE, seconds_left |-> 0, requests |-> requests]

\* on_time_blocked as it would be if a blocked request were counted too
on_time_blocked_counts_blocked(requests, cap, requester, message_timestamp) ==
    IF requester \in DOMAIN requests
    THEN LET check_time == requests[requester].check_time
             requests_count == requests[requester].requests_count
         IN  IF check_time > message_timestamp /\ requests_count >= cap
             THEN [approved |-> FALSE,
                   seconds_left |-> check_time - message_timestamp,
                   requests |-> [requests EXCEPT ![requester].requests_count = @ + 1]]
             ELSE IF check_time > message_timestamp
             THEN [approved |-> TRUE, seconds_left |-> 0,
                   requests |-> [requests EXCEPT ![requester].requests_count = @ + 1]]
             ELSE [approved |-> TRUE, seconds_left |-> 0,
                   requests |-> DictDel(requests, requester)]
    ELSE [approved |-> TRUE, seconds_left |-> 0, requests |-> requests]

\* on_time_blocked on requests = ACTIVE_REQUESTS[client.key][network_id]
on_time_blocked(requests, cap, requester, message_timestamp) ==
    IF requester \in DOMAIN requests
    THEN LET check_time == requests[requester].check_time
             requests_count == requests[requester].requests_count
         IN  IF check_time > message_timestamp /\ requests_count >= cap
             THEN [approved |-> FALSE,
                   seconds_left |-> check_time - message_timestamp,
                   requests |-> requests]
             ELSE IF check_time > message_timestamp
             THEN [approved |-> TRUE, seconds_left |-> 0,
                   requests |-> [requests EXCEPT ![requester].requests_count = @ + 1]]
             ELSE [approved |-> TRUE, seconds_left |-> 0,
                   requests |-> DictDel(requests, requester)]
    ELSE [approved |-> TRUE, seconds_left |-> 0, requests |-> requests]

\* NewEntry as it would be if the window of a fresh entry ended at once
NewEntryExpired(message_timestamp, timeout) ==
    [check_time |-> message_timestamp, requests_count |-> 1]

\* lines 264-267: the entry check_time_limits creates
NewEntry(message_timestamp, timeout) ==
    [check_time |-> message_timestamp + timeout, requests_count |-> 1]

\* check_time_limits as it would be if an address at the cap could take one
\* request more
check_time_limits_address_past_cap(requests, cap, timeout, requester, address, message_timestamp) ==
    LET first == on_time_blocked(requests, cap, requester, message_timestamp)
    IN  IF ~first.approved
        THEN [approved |-> FALSE, blocked_by |-> requester,
              seconds_left |-> first.seconds_left, requests |-> first.requests]
        ELSE
        LET second == on_time_blocked(first.requests, cap + 1, address,
                                      message_timestamp)
        IN  IF ~second.approved
            THEN [approved |-> FALSE, blocked_by |-> address,
                  seconds_left |-> second.seconds_left, requests |-> second.requests]
            ELSE IF requester \notin DOMAIN second.requests
                    /\ address \notin DOMAIN second.requests
            THEN [approved |-> TRUE, blocked_by |-> "", seconds_left |-> 0,
                  requests |->
                      DictSet(DictSet(second.requests, requester,
                                      NewEntry(message_timestamp, timeout)),
                              address, NewEntry(message_timestamp, timeout))]
            ELSE [approved |-> TRUE, blocked_by |-> "", seconds_left |-> 0,
                  requests |-> second.requests]

\* check_time_limits: the requester's gate, then the address's, then fresh entries
check_time_limits(requests, cap, timeout, requester, address, message_timestamp) ==
    LET first == on_time_blocked(requests, cap, requester, message_timestamp)
    IN  IF ~first.approved
        THEN [approved |-> FALSE, blocked_by |-> requester,
              seconds_left |-> first.seconds_left, requests |-> first.requests]
        ELSE
        LET second == on_time_blocked(first.requests, cap, address, message_timestamp)
        IN  IF ~second.approved
            THEN [approved |-> FALSE, blocked_by |-> address,
                  seconds_left |-> second.seconds_left, requests |-> second.requests]
            ELSE IF requester \notin DOMAIN second.requests
                    /\ address \notin DOMAIN second.requests
            THEN [approved |-> TRUE, blocked_by |-> "", seconds_left |-> 0,
                  requests |->
                      DictSet(DictSet(second.requests, requester,
                                      NewEntry(message_timestamp, timeout)),
                              address, NewEntry(message_timestamp, timeout))]
            ELSE [approved |-> TRUE, blocked_by |-> "", seconds_left |-> 0,
                  requests |-> second.requests]

-----------------------------------------------------------------------------
(* The daily cap *)

\* check_daily_cap as it would be if a refused amount were counted all the same
check_daily_cap_counts_refused(tallies, network_id, delta, cap, today) ==
    IF network_id \notin DOMAIN tallies \/ today # tallies[network_id].active_day
    THEN [ok |-> TRUE,
          tallies |-> DictSet(tallies, network_id,
                              [active_day |-> today, day_tally |-> delta])]
    ELSE [ok |-> tallies[network_id].day_tally + delta <= cap,
          tallies |-> [tallies EXCEPT ![network_id].day_tally = @ + delta]]

\* check_daily_cap as it would be if a new day went on from the old day's tally
check_daily_cap_carries_over(tallies, network_id, delta, cap, today) ==
    IF network_id \notin DOMAIN tallies
    THEN [ok |-> TRUE,
          tallies |-> DictSet(tallies, network_id,
                              [active_day |-> today, day_tally |-> delta])]
    ELSE IF today # tallies[network_id].active_day
    THEN [ok |-> TRUE,
          tallies |-> [tallies EXCEPT ![network_id] =
                          [active_day |-> today, day_tally |-> @.day_tally + delta]]]
    ELSE IF tallies[network_id].day_tally + delta > cap
    THEN [ok |-> FALSE, tallies |-> tallies]
    ELSE [ok |-> TRUE,
          tallies |-> [tallies EXCEPT ![network_id].day_tally = @ + delta]]

\* check_daily_cap on tallies = NETWORKS_DAY_TALLY[client.key]
check_daily_cap(tallies, network_id, delta, cap, today) ==
    IF network_id \notin DOMAIN tallies \/ today # tallies[network_id].active_day
    THEN [ok |-> TRUE,
          tallies |-> DictSet(tallies, network_id,
                              [active_day |-> today, day_tally |-> delta])]
    ELSE IF tallies[network_id].day_tally + delta > cap
    THEN [ok |-> FALSE, tallies |-> tallies]
    ELSE [ok |-> TRUE,
          tallies |-> [tallies EXCEPT ![network_id].day_tally = @ + delta]]

\* revert_daily_consume as it would be if it left the tally alone
revert_daily_consume_keeps(tallies, network_id, delta) == tallies

\* revert_daily_consume
revert_daily_consume(tallies, network_id, delta) ==
    IF network_id \in DOMAIN tallies
    THEN [tallies EXCEPT ![network_id].day_tally = @ - delta]
    ELSE tallies

-----------------------------------------------------------------------------
(* Messages, queue items and events *)

GENERIC_ERROR_MESSAGE == "Could not handle your request"

\* the dict token_request puts on the queue. id and at are history fields: the
\* rank of the request among those the client accepted, and the instant at
\* which token_request handled it (and check_daily_cap reserved its amount)
Item(id, author, address, network_id, at) ==
    [id |-> id, author |-> author, address |-> address,
     network_id |-> network_id, at |-> at]

NoItem == Item(0, "", "", "", 0)

NoGate == [approved |-> FALSE, blocked_by |-> "", seconds_left |-> 0]

GateOf(res) ==
    [approved |-> res.approved, blocked_by |-> res.blocked_by,
     seconds_left |-> res.seconds_left]

\* the event a step leaves in ev: what happened, to which item, the reply sent
\* ("" when none was sent), where the worker stood, and the client's ledger
\* and tally before the step (gate_requests: before the gate ran for the item).
\* param and calls are filled by $tx_info: the length of the hash the message
\* carried, and the number of get_tx_info calls the handler made.
Event(kind, c, item, reply, raised, gate) ==
    [kind |-> kind, client |-> c, item |-> item, reply |-> reply,
     raised |-> raised, gate |-> gate, at |-> now, stage |-> pc[c],
     param |-> 0, calls |-> 0,
     gate_requests |-> cur[c].gate_requests,
     pre_requests |-> ACTIVE_REQUESTS[c],
     pre_tally |-> NETWORKS_DAY_TALLY[c],
     pre_nacc |-> nacc[c],
     pre_waiting |-> Len(put_tasks[c]) + Len(TRANSACTIONS_QUEUE[c])]

\* the worker's locals: the item, and two history fields: the network's ledger
\* before the gate ran for it, and how the item before it ended
NoCur == [item |-> NoItem, gate_requests |-> EmptyDict, after |-> "none"]

\* tx_send before it is called. pc: "none", "running" (awaiting an execute),
\* "returned" or "raised"; error: the exception that left tx_send; attempts:
\* the executes made; outcomes: what each of them came to (history)
NotCalled == [pc |-> "none", error |-> "", attempts |-> 0, outcomes |-> <<>>]

Init ==
    /\ now = 0
    /\ ACTIVE_REQUESTS = [c \in CLIENTS |-> EmptyDict]
    /\ NETWORKS_DAY_TALLY = [c \in CLIENTS |-> EmptyDict]
    /\ TRANSACTIONS_QUEUE = [c \in CLIENTS |-> <<>>]
    /\ TRANSACTIONS_QUEUE_TASKS = [c \in CLIENTS |-> "None"]
    /\ put_tasks = [c \in CLIENTS |-> <<>>]
    /\ pc = [c \in CLIENTS |-> "none"]
    /\ cur = [c \in CLIENTS |-> NoCur]
    /\ transactions_csv = <<>>
    /\ nacc = [c \in CLIENTS |-> 0]
    /\ ndeq = [c \in CLIENTS |-> 0]
    /\ finished = [c \in CLIENTS |-> "none"]
    /\ worker_tasks = [c \in CLIENTS |-> 0]
    /\ sent = [c \in CLIENTS |-> EmptyDict]
    /\ admitted = [c \in CLIENTS |-> <<>>]
    /\ tx_send_call = NotCalled
    /\ ev = [kind |-> "init", client |-> "", item |-> NoItem, reply |-> "",
             raised |-> FALSE, gate |-> NoGate, at |-> 0, stage |-> "",
             param |-> 0, calls |-> 0,
             gate_requests |-> EmptyDict,
             pre_requests |-> EmptyDict, pre_tally |-> EmptyDict,
             pre_nacc |-> 0, pre_waiting |-> 0]

-----------------------------------------------------------------------------
(* The clock *)

\* time passes to the next instant at which something reads the clock
Tick(T) ==
    /\ \E t \in T :
          /\ t > now
          /\ \A u \in T : u > now => t <= u
          /\ now' = t
    /\ ev' = [kind |-> "tick", client |-> "", item |-> NoItem, reply |-> "",
              raised |-> FALSE, gate |-> NoGate, at |-> now, stage |-> "",
              param |-> 0, calls |-> 0,
              gate_requests |-> EmptyDict,
             pre_requests |-> EmptyDict, pre_tally |-> EmptyDict,
              pre_nacc |-> 0, pre_waiting |-> 0]
    /\ UNCHANGED <<ACTIVE_REQUESTS, NETWORKS_DAY_TALLY, TRANSACTIONS_QUEUE,
                   TRANSACTIONS_QUEUE_TASKS, worker_tasks, put_tasks, pc, cur,
                   transactions_csv, admitted, tx_send_call, sent, nacc, ndeq, finished>>

-----------------------------------------------------------------------------
(* on_message and token_request *)

\* StartWorker as it would be if every message created a worker task
StartWorkerEveryMessage(c) ==
    /\ TRANSACTIONS_QUEUE_TASKS' = [TRANSACTIONS_QUEUE_TASKS EXCEPT ![c] = "Task"]
    /\ worker_tasks' = [worker_tasks EXCEPT ![c] = @ + 1]
    /\ pc' = [pc EXCEPT ![c] = IF @ = "none" THEN "get" ELSE @]

\* on_message lines 444-448: start the worker unless a task object exists that
\* was not cancelled; nothing cancels a task, and a task that has returned is
\* still a task object
StartWorker(c) ==
    IF TRANSACTIONS_QUEUE_TASKS[c] = "None"
    THEN /\ TRANSACTIONS_QUEUE_TASKS' = [TRANSACTIONS_QUEUE_TASKS EXCEPT ![c] = "Task"]
         /\ worker_tasks' = [worker_tasks EXCEPT ![c] = @ + 1]
         /\ pc' = [pc EXCEPT ![c] = "get"]
    ELSE UNCHANGED <<TRANSACTIONS_QUEUE_TASKS, worker_tasks, pc>>

\* token_request lines 311-316: the network id of the request, and its ledger
\* created when the client has none for it
WithNetwork(requests, network_id) ==
    IF network_id \in DOMAIN requests THEN requests
    ELSE DictSet(requests, network_id, EmptyDict)

\* what a command that only answers leaves behind: the worker started by
\* on_message when there was none, and the reply
Answer(kind, c, reply, raised) ==
    /\ StartWorker(c)
    /\ ev' = Event(kind, c, NoItem, reply, raised, NoGate)
    /\ UNCHANGED <<now, tx_send_call, ACTIVE_REQUESTS, NETWORKS_DAY_TALLY, TRANSACTIONS_QUEUE,
                   put_tasks, cur, transactions_csv, admitted, sent, nacc, ndeq, finished>>

\* $balance: the address is missing or has the wrong prefix, the balance is
\* found or not, or a call raises and the except branch answers
BalanceRequest(c, outcome) ==
    /\ outcome \in {"missing", "prefix", "none", "found", "raise"}
    /\ Answer("balance", c,
              CASE outcome = "missing" -> "Missing address"
                [] outcome = "prefix" -> "Expected prefix"
                [] outcome = "none" -> "No balance for address"
                [] outcome = "found" -> "Balance for address"
                [] OTHER -> GENERIC_ERROR_MESSAGE,
              outcome = "raise")

\* $faucet_status: get_node_status returns the status or raises
FaucetStatus(c, outcome) ==
    /\ outcome \in {"status", "raise"}
    /\ Answer("faucet_status", c,
              IF outcome = "status" THEN "Node moniker" ELSE GENERIC_ERROR_MESSAGE,
              outcome = "raise")

\* transaction_info as it would be if it handed every hash that is not empty
\* to get_tx_info
transaction_info_any_length(hash_len, outcome) ==
    IF hash_len = 0
    THEN [reply |-> "Missing transaction hash ID", calls |-> 0, raised |-> FALSE]
    ELSE IF outcome = "found"
    THEN [reply |-> "From: To: Amount: Height:", calls |-> 1, raised |-> FALSE]
    ELSE [reply |-> GENERIC_ERROR_MESSAGE, calls |-> 1, raised |-> TRUE]

\* transaction_info for a hash of hash_len characters (0: the message has no
\* parameter): the reply, the number of get_tx_info calls, and whether the
\* except branch ran. outcome is what get_tx_info does when it is called.
transaction_info(hash_len, outcome) ==
    IF hash_len = 0
    THEN [reply |-> "Missing transaction hash ID", calls |-> 0, raised |-> FALSE]
    ELSE IF hash_len # 64
    THEN [reply |-> "Hash ID must be 64 characters long", calls |-> 0,
          raised |-> FALSE]
    ELSE IF outcome = "found"
    THEN [reply |-> "From: To: Amount: Height:", calls |-> 1, raised |-> FALSE]
    ELSE [reply |-> GENERIC_ERROR_MESSAGE, calls |-> 1, raised |-> TRUE]

\* the lengths of the hashes the model sends with $tx_info
HashLengths == {0, 1, 63, 64, 65}

\* $tx_info with a hash of hash_len characters
TransactionInfo(c, hash_len, outcome) ==
    /\ hash_len \in HashLengths
    /\ outcome \in {"found", "raise"}
    /\ LET res == transaction_info(hash_len, outcome)
       IN  /\ StartWorker(c)
           /\ ev' = [Event("tx_info", c, NoItem, res.reply, res.raised, NoGate)
                        EXCEPT !.param = hash_len, !.calls = res.calls]
    /\ UNCHANGED <<now, tx_send_call, ACTIVE_REQUESTS, NETWORKS_DAY_TALLY, TRANSACTIONS_QUEUE,
                   put_tasks, cur, transactions_csv, admitted, sent, nacc, ndeq, finished>>

\* any other message that starts with $: the help text
Help(c) ==
    /\ c \in CLIENTS
    /\ Answer("help", c, "List of available commands", FALSE)

\* TokenRequestInvalid as it would be if the refusal of the address were not
\* told to the requester
TokenRequestInvalidSilent(c, requester, why) ==
    /\ StartWorker(c)
    /\ ev' = Event("invalid", c, NoItem, "", why = "raise", NoGate)
    /\ UNCHANGED <<now, tx_send_call, ACTIVE_REQUESTS, NETWORKS_DAY_TALLY, TRANSACTIONS_QUEUE,
                   put_tasks, cur, transactions_csv, admitted, sent, nacc, ndeq, finished>>

\* TokenRequestInvalid as it would be if token_request created the ledger of
\* the network before it validated the address
TokenRequestInvalidAfterLedger(c, requester, why) ==
    /\ StartWorker(c)
    /\ ACTIVE_REQUESTS' = [ACTIVE_REQUESTS EXCEPT
                              ![c] = WithNetwork(@, node_chain_id(c))]
    /\ ev' = Event("invalid", c, NoItem,
                   CASE why = "missing" -> "Missing address"
                     [] why = "prefix" -> "Expected prefix"
                     [] OTHER -> GENERIC_ERROR_MESSAGE,
                   why = "raise", NoGate)
    /\ UNCHANGED <<now, tx_send_call, NETWORKS_DAY_TALLY, TRANSACTIONS_QUEUE,
                   put_tasks, cur, transactions_csv, admitted, sent, nacc, ndeq,
                   finished>>

\* $request whose address is missing, has the wrong prefix, or makes
\* check_address raise: a reply, and nothing else
TokenRequestInvalid(c, requester, why) ==
    /\ StartWorker(c)
    /\ ev' = Event("invalid", c, NoItem,
                   CASE why = "missing" -> "Missing address"
                     [] why = "prefix" -> "Expected prefix"
                     [] OTHER -> GENERIC_ERROR_MESSAGE,
                   why = "raise", NoGate)
    /\ UNCHANGED <<now, tx_send_call, ACTIVE_REQUESTS, NETWORKS_DAY_TALLY, TRANSACTIONS_QUEUE,
                   put_tasks, cur, transactions_csv, admitted, sent, nacc, ndeq, finished>>

\* $request for an IBC network for which the denom service answers nothing
TokenRequestNoDenom(c, requester, address, network_id) ==
    /\ network_id # node_chain_id(c)
    /\ StartWorker(c)
    /\ ACTIVE_REQUESTS' = [ACTIVE_REQUESTS EXCEPT
                              ![c] = WithNetwork(@, network_id)]
    /\ ev' = Event("no_denom", c, Item(0, "", "", network_id, 0),
                   "The faucet has no balance", FALSE, NoGate)
    /\ UNCHANGED <<now, tx_send_call, NETWORKS_DAY_TALLY, TRANSACTIONS_QUEUE, put_tasks, cur,
                   transactions_csv, admitted, sent, nacc, ndeq, finished>>

\* lines 343-349: asyncio.create_task(transactions_queue.put(item))
CreatePutTask(tasks, item) == Append(tasks, item)

\* TokenRequest as it would be if token_request ran the rate-limit gate before
\* check_daily_cap and kept what the gate wrote when the cap refused the request
TokenRequestAdmitsFirst(c, requester, address, network_id, max) ==
    LET delta == get_amount_to_send(c, network_id)
        res == check_daily_cap(NETWORKS_DAY_TALLY[c], network_id, delta,
                               get_daily_cap(c, network_id), Today(now))
        item == Item(nacc[c] + 1, requester, address, network_id, now)
        gate == check_time_limits(WithNetwork(ACTIVE_REQUESTS[c], network_id)[network_id],
                                  get_token_requests_cap(c, network_id),
                                  request_timeout, MemberId(requester), address, now)
    IN  /\ res.ok => nacc[c] < max
        /\ StartWorker(c)
        /\ ACTIVE_REQUESTS' = [ACTIVE_REQUESTS EXCEPT
                                  ![c] = DictSet(@, network_id, gate.requests)]
        /\ NETWORKS_DAY_TALLY' = [NETWORKS_DAY_TALLY EXCEPT ![c] = res.tallies]
        /\ IF res.ok
           THEN /\ put_tasks' = [put_tasks EXCEPT ![c] = CreatePutTask(@, item)]
                /\ nacc' = [nacc EXCEPT ![c] = @ + 1]
                /\ ev' = Event("accepted", c, item,
                               "Request accepted and is in queue", FALSE, NoGate)
           ELSE /\ UNCHANGED <<put_tasks, nacc>>
                /\ ev' = Event("cap_refused", c, Item(0, requester, address, network_id, now),
                               "Sorry, the daily cap for this faucet has been reached",
                               FALSE, NoGate)
        /\ UNCHANGED <<now, tx_send_call, TRANSACTIONS_QUEUE, cur, transactions_csv, admitted, sent, ndeq, finished>>

\* TokenRequest as it would be if token_request waited for the transfer in
\* flight before it took the next request
TokenRequestAfterTransfer(c, requester, address, network_id, max) ==
    LET delta == get_amount_to_send(c, network_id)
        res == check_daily_cap(NETWORKS_DAY_TALLY[c], network_id, delta,
                               get_daily_cap(c, network_id), Today(now))
        item == Item(nacc[c] + 1, requester, address, network_id, now)
    IN  /\ pc[c] # "tx_send"
        /\ res.ok => nacc[c] < max
        /\ StartWorker(c)
        /\ ACTIVE_REQUESTS' = [ACTIVE_REQUESTS EXCEPT
                                  ![c] = WithNetwork(@, network_id)]
        /\ NETWORKS_DAY_TALLY' = [NETWORKS_DAY_TALLY EXCEPT ![c] = res.tallies]
        /\ IF res.ok
           THEN /\ put_tasks' = [put_tasks EXCEPT ![c] = CreatePutTask(@, item)]
                /\ nacc' = [nacc EXCEPT ![c] = @ + 1]
                /\ ev' = Event("accepted", c, item,
                               "Request accepted and is in queue", FALSE, NoGate)
           ELSE /\ UNCHANGED <<put_tasks, nacc>>
                /\ ev' = Event("cap_refused", c, Item(0, requester, address, network_id, now),
                               "Sorry, the daily cap for this faucet has been reached",
                               FALSE, NoGate)
        /\ UNCHANGED <<now, tx_send_call, TRANSACTIONS_QUEUE, cur, transactions_csv, admitted,
                       sent, ndeq, finished>>

\* $request with a valid address and a known denom: check_daily_cap, then either
\* the refusal, or the put task and the "accepted" reply. max bounds the
\* requests the model lets a client accept.
TokenRequest(c, requester, address, network_id, max) ==
    LET delta == get_amount_to_send(c, network_id)
        res == check_daily_cap(NETWORKS_DAY_TALLY[c], network_id, delta,
                               get_daily_cap(c, network_id), Today(now))
        item == Item(nacc[c] + 1, requester, address, network_id, now)
    IN  /\ res.ok => nacc[c] < max
        /\ StartWorker(c)
        /\ ACTIVE_REQUESTS' = [ACTIVE_REQUESTS EXCEPT
                                  ![c] = WithNetwork(@, network_id)]
        /\ NETWORKS_DAY_TALLY' = [NETWORKS_DAY_TALLY EXCEPT ![c] = res.tallies]
        /\ IF res.ok
           THEN /\ put_tasks' = [put_tasks EXCEPT ![c] = CreatePutTask(@, item)]
                /\ nacc' = [nacc EXCEPT ![c] = @ + 1]
                /\ ev' = Event("accepted", c, item,
                               "Request accepted and is in queue", FALSE, NoGate)
           ELSE /\ UNCHANGED <<put_tasks, nacc>>
                /\ ev' = Event("cap_refused", c, Item(0, requester, address, network_id, now),
                               "Sorry, the daily cap for this faucet has been reached",
                               FALSE, NoGate)
        /\ UNCHANGED <<now, tx_send_call, TRANSACTIONS_QUEUE, cur, transactions_csv, admitted, sent, ndeq, finished>>

\* a put task runs: tasks run in the order they were created, and the queue
\* is unbounded, so the put never waits
PutTask(c) ==
    /\ put_tasks[c] # <<>>
    /\ TRANSACTIONS_QUEUE' = [TRANSACTIONS_QUEUE EXCEPT ![c] = Append(@, Head(put_tasks[c]))]
    /\ put_tasks' = [put_tasks EXCEPT ![c] = Tail(@)]
    /\ ev' = Event("put", c, Head(put_tasks[c]), "", FALSE, NoGate)
    /\ UNCHANGED <<now, tx_send_call, ACTIVE_REQUESTS, NETWORKS_DAY_TALLY, TRANSACTIONS_QUEUE_TASKS, worker_tasks,
                   pc, cur, transactions_csv, admitted, sent, nacc, ndeq, finished>>

-----------------------------------------------------------------------------
(* process_transactions_queue *)

\* SetRequests as it would be if the clients shared one ledger
SetRequestsOfAllClients(c, network_id, requests) ==
    [d \in CLIENTS |-> DictSet(ACTIVE_REQUESTS[d], network_id, requests)]

\* the two levels of ledger and tally of client c after a change for one network
SetRequests(c, network_id, requests) ==
    [ACTIVE_REQUESTS EXCEPT ![c][network_id] = requests]

\* lines 407-416, run on the client's ledger and tally as the failed step left
\* them. del ACTIVE_REQUESTS[..][requester] names the Member object, while the
\* gate stored the entry under requester.id: a key that is absent raises
\* KeyError, which the outer except logs, and nothing after the del runs.
\* replied: the handler reached message.reply(GENERIC_ERROR_MESSAGE).
ExceptHandler(c, item, requests, tallies) ==
    LET n == item.network_id
        is_core_team == item.author \in CoreTeam
    IN  IF is_core_team
        THEN [requests |-> requests, tallies |-> tallies, replied |-> TRUE]
        ELSE IF item.author \notin DOMAIN requests[n]
        THEN [requests |-> requests, tallies |-> tallies, replied |-> FALSE]
        ELSE IF item.address \notin DOMAIN DictDel(requests[n], item.author)
        THEN [requests |-> [requests EXCEPT ![n] = DictDel(@, item.author)],
              tallies |-> tallies, replied |-> FALSE]
        ELSE [requests |-> [requests EXCEPT
                               ![n] = DictDel(DictDel(@, item.author), item.address)],
              tallies |-> revert_daily_consume(tallies, n,
                                              get_amount_to_send(c, n)),
              replied |-> TRUE]

\* the worker after line 378 or 386: return leaves the coroutine through the
\* finally clause, and the task is done
Return(c, how) ==
    /\ pc' = [pc EXCEPT ![c] = "returned"]
    /\ cur' = [cur EXCEPT ![c] = NoCur]
    /\ finished' = [finished EXCEPT ![c] = how]

\* LoopAgain as it would be without the outer except of line 415: the failure
\* leaves the coroutine and ends the task
LoopAgainPropagates(c, how) == Return(c, how)

\* the worker after an item that ended in the except branches: the finally
\* clause, then the next turn of the while loop
LoopAgain(c, how) ==
    /\ pc' = [pc EXCEPT ![c] = "get"]
    /\ cur' = [cur EXCEPT ![c] = NoCur]
    /\ finished' = [finished EXCEPT ![c] = how]

\* queue.get() hands over the head of the queue
Dequeue(c) ==
    /\ pc[c] = "get"
    /\ TRANSACTIONS_QUEUE[c] # <<>>
    /\ TRANSACTIONS_QUEUE' = [TRANSACTIONS_QUEUE EXCEPT ![c] = Tail(@)]
    /\ ndeq' = [ndeq EXCEPT ![c] = @ + 1]

\* what is kept of a request check_time_limits approved at instant t
Admission(item, t) ==
    [requester |-> MemberId(item.author), address |-> item.address,
     network_id |-> item.network_id, at |-> t]

\* GateAdmit as it would be if a core team member went through
\* check_time_limits like everybody else
GateAdmitCountsCoreTeam(c) ==
    /\ Dequeue(c)
    /\ LET item == Head(TRANSACTIONS_QUEUE[c])
           n == item.network_id
           res == check_time_limits(ACTIVE_REQUESTS[c][n],
                                    get_token_requests_cap(c, n), request_timeout,
                                    MemberId(item.author), item.address, now)
       IN  /\ res.approved
           /\ ACTIVE_REQUESTS' = SetRequests(c, n, res.requests)
           /\ admitted' = [admitted EXCEPT ![c] = Append(@, Admission(item, now))]
           /\ cur' = [cur EXCEPT ![c] = [item |-> item,
                                         gate_requests |-> ACTIVE_REQUESTS[c][n],
                                         after |-> finished[c]]]
           /\ ev' = Event("admitted", c, item, "", FALSE, GateOf(res))
    /\ pc' = [pc EXCEPT ![c] = "get_balance"]
    /\ finished' = [finished EXCEPT ![c] = "none"]
    /\ UNCHANGED <<now, tx_send_call, NETWORKS_DAY_TALLY, TRANSACTIONS_QUEUE_TASKS, worker_tasks, put_tasks,
                   transactions_csv, sent, nacc>>

\* lines 356-380 for a request the gate lets through: a core team member, or
\* check_time_limits approves; the worker awaits get_balance
GateAdmit(c) ==
    /\ Dequeue(c)
    /\ LET item == Head(TRANSACTIONS_QUEUE[c])
           n == item.network_id
           res == check_time_limits(ACTIVE_REQUESTS[c][n],
                                    get_token_requests_cap(c, n), request_timeout,
                                    MemberId(item.author), item.address, now)
       IN  /\ item.author \in CoreTeam \/ res.approved
           /\ ACTIVE_REQUESTS' =
                  IF item.author \in CoreTeam THEN ACTIVE_REQUESTS
                  ELSE SetRequests(c, n, res.requests)
           /\ admitted' =
                  IF item.author \in CoreTeam THEN admitted
                  ELSE [admitted EXCEPT ![c] = Append(@, Admission(item, now))]
           /\ cur' = [cur EXCEPT ![c] = [item |-> item,
                                         gate_requests |-> ACTIVE_REQUESTS[c][n],
                                         after |-> finished[c]]]
           /\ ev' = Event("admitted", c, item, "", FALSE,
                          IF item.author \in CoreTeam
                          THEN [NoGate EXCEPT !.approved = TRUE] ELSE GateOf(res))
    /\ pc' = [pc EXCEPT ![c] = "get_balance"]
    /\ finished' = [finished EXCEPT ![c] = "none"]
    /\ UNCHANGED <<now, tx_send_call, NETWORKS_DAY_TALLY, TRANSACTIONS_QUEUE_TASKS, worker_tasks, put_tasks,
                   transactions_csv, sent, nacc>>

\* lines 356-378 for a request check_time_limits rejects: revert_daily_consume,
\* the reply, return. When the reply raises (reply_ok false) the except branch
\* runs instead of the return.
GateReject(c, reply_ok) ==
    /\ Dequeue(c)
    /\ LET item == Head(TRANSACTIONS_QUEUE[c])
           n == item.network_id
           res == check_time_limits(ACTIVE_REQUESTS[c][n],
                                    get_token_requests_cap(c, n), request_timeout,
                                    MemberId(item.author), item.address, now)
           reverted == revert_daily_consume(NETWORKS_DAY_TALLY[c], n,
                                            get_amount_to_send(c, n))
           after == ExceptHandler(c, item, SetRequests(c, n, res.requests)[c], reverted)
       IN  /\ item.author \notin CoreTeam
           /\ ~res.approved
           /\ IF reply_ok
              THEN /\ ACTIVE_REQUESTS' = SetRequests(c, n, res.requests)
                   /\ NETWORKS_DAY_TALLY' = [NETWORKS_DAY_TALLY EXCEPT ![c] = reverted]
                   /\ Return(c, "rejected")
              ELSE /\ ACTIVE_REQUESTS' = [ACTIVE_REQUESTS EXCEPT ![c] = after.requests]
                   /\ NETWORKS_DAY_TALLY' = [NETWORKS_DAY_TALLY EXCEPT ![c] = after.tallies]
                   /\ LoopAgain(c, "rejected")
           /\ ev' = Event("rejected", c, item,
                          IF reply_ok THEN "You can request no more than" ELSE "",
                          ~reply_ok, GateOf(res))
    /\ UNCHANGED <<now, tx_send_call, TRANSACTIONS_QUEUE_TASKS, worker_tasks, put_tasks, transactions_csv, admitted, sent, nacc>>

\* get_balance returns a balance that covers the amount to send
BalanceEnough(c) ==
    /\ pc[c] = "get_balance"
    /\ pc' = [pc EXCEPT ![c] = "tx_send"]
    /\ UNCHANGED cur
    /\ ev' = Event("balance_ok", c, cur[c].item, "", FALSE, NoGate)
    /\ UNCHANGED <<now, tx_send_call, ACTIVE_REQUESTS, NETWORKS_DAY_TALLY, TRANSACTIONS_QUEUE,
                   TRANSACTIONS_QUEUE_TASKS, worker_tasks, put_tasks, transactions_csv, admitted, sent, nacc, ndeq,
                   finished>>

\* lines 382-386: get_balance returns nothing or too little; revert_daily_consume,
\* the reply, return. When the reply raises the except branch runs instead.
Drained(c, reply_ok) ==
    /\ pc[c] = "get_balance"
    /\ LET item == cur[c].item
           n == item.network_id
           reverted == revert_daily_consume(NETWORKS_DAY_TALLY[c], n,
                                            get_amount_to_send(c, n))
           after == ExceptHandler(c, item, ACTIVE_REQUESTS[c], reverted)
       IN  /\ IF reply_ok
              THEN /\ NETWORKS_DAY_TALLY' = [NETWORKS_DAY_TALLY EXCEPT ![c] = reverted]
                   /\ UNCHANGED ACTIVE_REQUESTS
                   /\ Return(c, "drained")
              ELSE /\ ACTIVE_REQUESTS' = [ACTIVE_REQUESTS EXCEPT ![c] = after.requests]
                   /\ NETWORKS_DAY_TALLY' = [NETWORKS_DAY_TALLY EXCEPT ![c] = after.tallies]
                   /\ LoopAgain(c, "drained")
           /\ ev' = Event("drained", c, item,
                          IF reply_ok THEN "Faucet is drained out" ELSE "",
                          ~reply_ok, NoGate)
    /\ UNCHANGED <<now, tx_send_call, TRANSACTIONS_QUEUE, TRANSACTIONS_QUEUE_TASKS, worker_tasks, put_tasks,
                   transactions_csv, admitted, sent, nacc, ndeq>>

\* the amounts tx_send handed over for a network on the day of the latest
\* transfer, after one more transfer of amount on day today
Transferred(transfers, network_id, amount, today) ==
    IF network_id \in DOMAIN transfers /\ transfers[network_id].day = today
    THEN [transfers EXCEPT ![network_id].sum = @ + amount]
    ELSE DictSet(transfers, network_id, [day |-> today, sum |-> amount])

\* tx_send returns the hash of the transfer; the worker awaits the reply
TxSent(c) ==
    /\ pc[c] = "tx_send"
    /\ pc' = [pc EXCEPT ![c] = "reply"]
    /\ sent' = [sent EXCEPT ![c] =
                    Transferred(@, cur[c].item.network_id,
                                get_amount_to_send(c, cur[c].item.network_id),
                                Today(now))]
    /\ UNCHANGED cur
    /\ ev' = Event("sent", c, cur[c].item, "", FALSE, NoGate)
    /\ UNCHANGED <<now, tx_send_call, ACTIVE_REQUESTS, NETWORKS_DAY_TALLY, TRANSACTIONS_QUEUE,
                   TRANSACTIONS_QUEUE_TASKS, worker_tasks, put_tasks, transactions_csv, admitted,
                   nacc, ndeq, finished>>

\* the approval was sent; the worker awaits save_transaction_statistics
Replied(c) ==
    /\ pc[c] = "reply"
    /\ pc' = [pc EXCEPT ![c] = "save"]
    /\ ev' = Event("replied", c, cur[c].item, "Your tx is approved", FALSE, NoGate)
    /\ UNCHANGED <<now, tx_send_call, ACTIVE_REQUESTS, NETWORKS_DAY_TALLY, TRANSACTIONS_QUEUE,
                   TRANSACTIONS_QUEUE_TASKS, worker_tasks, put_tasks, cur, transactions_csv, admitted, sent, nacc,
                   ndeq, finished>>

\* save_transaction_statistics wrote the line; the item is done
Saved(c) ==
    /\ pc[c] = "save"
    /\ transactions_csv' = Append(transactions_csv, <<c, cur[c].item.id>>)
    /\ LoopAgain(c, "completed")
    /\ ev' = Event("saved", c, cur[c].item, "", FALSE, NoGate)
    /\ UNCHANGED <<now, tx_send_call, ACTIVE_REQUESTS, NETWORKS_DAY_TALLY, TRANSACTIONS_QUEUE,
                   TRANSACTIONS_QUEUE_TASKS, worker_tasks, put_tasks, sent, admitted,
                   nacc, ndeq>>

\* the awaited call (get_balance, tx_send, the approval reply or the audit
\* write) raises: the except branch of line 407, then the next item. reply_ok:
\* whether the reply of the except branch, when reached, goes out.
Raised(c, reply_ok) ==
    /\ pc[c] \in {"get_balance", "tx_send", "reply", "save"}
    /\ LET item == cur[c].item
           after == ExceptHandler(c, item, ACTIVE_REQUESTS[c], NETWORKS_DAY_TALLY[c])
       IN  /\ after.replied \/ reply_ok
           /\ ACTIVE_REQUESTS' = [ACTIVE_REQUESTS EXCEPT ![c] = after.requests]
           /\ NETWORKS_DAY_TALLY' = [NETWORKS_DAY_TALLY EXCEPT ![c] = after.tallies]
           /\ ev' = Event("exception", c, item,
                          IF after.replied /\ reply_ok THEN GENERIC_ERROR_MESSAGE ELSE "",
                          TRUE, NoGate)
    /\ LoopAgain(c, "exception")
    /\ UNCHANGED <<now, tx_send_call, TRANSACTIONS_QUEUE, TRANSACTIONS_QUEUE_TASKS, worker_tasks, put_tasks,
                   transactions_csv, admitted, sent, nacc, ndeq>>

-----------------------------------------------------------------------------
(* CosmosClient.tx_send and CosmosClient.execute *)

\* range(5): the turns of the for loop of tx_send
TxSendAttempts == 5

\* what one run of the node executable can come to: a non-zero exit status; an
\* output that is not JSON; JSON that is not an object; an object without
\* 'code'; a non-zero code; code 0 without 'txhash'; code 0 with 'txhash'
Outcomes ==
    {"exit", "not_json", "not_dict", "no_code", "code_nonzero", "code_0_no_hash",
     "code_0"}

\* execute with json_output: CalledProcessError for a non-zero exit status
\* (logged and raised again), the JSONDecodeError of json.loads, which no
\* except clause of execute names, or the parsed response
execute(outcome) ==
    CASE outcome = "exit" -> [raised |-> "CalledProcessError", response |-> ""]
      [] outcome = "not_json" -> [raised |-> "JSONDecodeError", response |-> ""]
      [] OTHER -> [raised |-> "", response |-> outcome]

\* tx_send_attempt as it would be if every exception of execute were caught
\* like TypeError and KeyError
tx_send_attempt_catches_all(attempts, outcome) ==
    LET res == execute(outcome)
    IN  IF res.raised = "" /\ res.response = "code_0"
        THEN [pc |-> "returned", error |-> ""]
        ELSE IF attempts + 1 = TxSendAttempts
        THEN [pc |-> "raised", error |-> "Exception"]
        ELSE [pc |-> "running", error |-> ""]

\* one turn of the for loop of tx_send, attempts turns having been made: an
\* exception of execute leaves tx_send, since the except clause names only
\* TypeError and KeyError; response['code'] == 0 with a 'txhash' returns;
\* TypeError (not an object), KeyError (no 'code', or code 0 and no 'txhash')
\* and a non-zero code go to the next turn, and after the last turn to the
\* raise of line 134
tx_send_attempt(attempts, outcome) ==
    LET res == execute(outcome)
    IN  IF res.raised # ""
        THEN [pc |-> "raised", error |-> res.raised]
        ELSE IF res.response = "code_0"
        THEN [pc |-> "returned", error |-> ""]
        ELSE IF attempts + 1 = TxSendAttempts
        THEN [pc |-> "raised", error |-> "Exception"]
        ELSE [pc |-> "running", error |-> ""]

\* the variables tx_send does not touch
faucet_vars ==
    <<now, ACTIVE_REQUESTS, NETWORKS_DAY_TALLY, TRANSACTIONS_QUEUE,
      TRANSACTIONS_QUEUE_TASKS, put_tasks, pc, cur, transactions_csv,
      nacc, ndeq, finished, worker_tasks, sent, admitted, ev>>

\* tx_send is called and awaits its first execute
TxSendCall ==
    /\ tx_send_call.pc = "none"
    /\ tx_send_call' = [NotCalled EXCEPT !.pc = "running"]
    /\ UNCHANGED faucet_vars

\* the subprocess of the awaited execute ends, and tx_send runs up to its next
\* await, its return or its raise
TxSendExecute(outcome) ==
    /\ tx_send_call.pc = "running"
    /\ LET step == tx_send_attempt(tx_send_call.attempts, outcome)
       IN  tx_send_call' = [pc |-> step.pc, error |-> step.error,
                            attempts |-> tx_send_call.attempts + 1,
                            outcomes |-> Append(tx_send_call.outcomes, outcome)]
    /\ UNCHANGED faucet_vars

-----------------------------------------------------------------------------
(* The specifications *)

\* time passes, and $request messages with a valid address arrive: clients C,
\* requesters R, addresses A, network ids N, instants T, at most max accepted
Arrivals(C, R, A, N, T, max) ==
    \/ Tick(T)
    \/ \E c \in C, r \in R, a \in A :
          \E n \in NetworkIds(c) \cap N : TokenRequest(c, r, a, n, max)

\* the event loop runs a put task or resumes the worker of a client
Loop(C) ==
    \/ \E c \in C : PutTask(c)
    \/ \E c \in C : GateAdmit(c)
    \/ \E c \in C, reply_ok \in BOOLEAN : GateReject(c, reply_ok)
    \/ \E c \in C : BalanceEnough(c)
    \/ \E c \in C, reply_ok \in BOOLEAN : Drained(c, reply_ok)
    \/ \E c \in C : TxSent(c)
    \/ \E c \in C : Replied(c)
    \/ \E c \in C : Saved(c)
    \/ \E c \in C, reply_ok \in BOOLEAN : Raised(c, reply_ok)

AllNetworks == UNION {NetworkIds(c) : c \in CLIENTS}

\* a requester and a core team member ask for one address on the IBC network
\* of client dym, around the end of a day
Next ==
    \/ Arrivals({"dym"}, {"alice", "carol"}, {"dym1aaa"}, {"osmo-1"},
                {0, 86399, 86400}, MaxRequests)
    \/ Loop({"dym"})

Spec == Init /\ [][Next]_vars

\* two requesters and two addresses on the client's own chain, around the end
\* of a rate-limit window; the reply of a rejection may fail, the other
\* replies go out
GateNext ==
    \/ Arrivals({"dym"}, {"alice", "bob"}, Addresses, {"dym_100-1"},
                {0, 21600}, MaxRequests)
    \/ PutTask("dym")
    \/ GateAdmit("dym")
    \/ \E reply_ok \in BOOLEAN : GateReject("dym", reply_ok)
    \/ BalanceEnough("dym")
    \/ Drained("dym", TRUE)
    \/ TxSent("dym")
    \/ Replied("dym")
    \/ Saved("dym")
    \/ Raised("dym", TRUE)

GateSpec == Init /\ [][GateNext]_vars

\* the scenario of four requests by one requester for one address on the
\* client's own chain, at these instants
ScenarioTimes == <<0, 1, 2, 21601>>

ScenarioRequest(c) ==
    /\ nacc[c] < Len(ScenarioTimes)
    /\ now = ScenarioTimes[nacc[c] + 1]
    /\ TokenRequest(c, "alice", "dym1aaa", node_chain_id(c), Len(ScenarioTimes))

\* the clock moves on once every request made so far has been through the gate
ScenarioTick ==
    /\ \A c \in CLIENTS : TRANSACTIONS_QUEUE[c] \o put_tasks[c] = <<>>
    /\ Tick({ScenarioTimes[i] : i \in 1..Len(ScenarioTimes)})

\* every balance check, transfer, reply and audit write of the scenario succeeds
ScenarioNext ==
    \/ ScenarioTick
    \/ \E c \in CLIENTS : ScenarioRequest(c)
    \/ \E c \in CLIENTS : PutTask(c)
    \/ \E c \in CLIENTS : GateAdmit(c)
    \/ \E c \in CLIENTS : GateReject(c, TRUE)
    \/ \E c \in CLIENTS : BalanceEnough(c)
    \/ \E c \in CLIENTS : TxSent(c)
    \/ \E c \in CLIENTS : Replied(c)
    \/ \E c \in CLIENTS : Saved(c)

ScenarioSpec == Init /\ [][ScenarioNext]_vars

\* accepted $request messages per client where both clients are at work
MaxClientRequests == 2

\* both clients serve one requester asking for one address on their IBC
\* networks, and every step of either worker can fail
ClientsNext ==
    \/ \E c \in CLIENTS :
          \E n \in NetworkIds(c) \ {node_chain_id(c)} :
              TokenRequest(c, "alice", "dym1aaa", n, MaxClientRequests)
    \/ Loop(CLIENTS)

ClientsSpec == Init /\ [][ClientsNext]_vars

\* accepted $request messages per client where the requests of a window are counted
MaxLimitRequests == 4

\* two requesters and two addresses on the client's own chain, around the end
\* of a day and within one rate-limit window; every balance check, transfer,
\* reply and audit write succeeds
LimitNext ==
    \/ Arrivals({"dym"}, {"alice", "bob"}, Addresses, {"dym_100-1"},
                {86399, 86400}, MaxLimitRequests)
    \/ PutTask("dym")
    \/ GateAdmit("dym")
    \/ GateReject("dym", TRUE)
    \/ BalanceEnough("dym")
    \/ TxSent("dym")
    \/ Replied("dym")
    \/ Saved("dym")

LimitSpec == Init /\ [][LimitNext]_vars

\* one call of tx_send, every execute of which can come to any outcome. The
\* event loop resumes tx_send when the subprocess it awaits has ended; that
\* every subprocess ends is assumed (execute sets no timeout).
TxSendNext ==
    \/ TxSendCall
    \/ \E outcome \in Outcomes : TxSendExecute(outcome)

TxSendSpec == Init /\ [][TxSendNext]_vars /\ WF_vars(TxSendNext)

\* a core team member, whom the rate-limit gate lets through, asks on both
\* networks of client dym on two days, and every transfer succeeds
CapNext ==
    \/ Arrivals({"dym"}, {"carol"}, {"dym1aaa"}, NetworkIds("dym"),
                {86399, 86400}, MaxCapRequests)
    \/ PutTask("dym")
    \/ GateAdmit("dym")
    \/ BalanceEnough("dym")
    \/ TxSent("dym")
    \/ Replied("dym")
    \/ Saved("dym")

CapSpec == Init /\ [][CapNext]_vars

\* every command of client dym, with requests for its own chain by a requester
\* and a core team member; Discord delivers every reply
CommandNext ==
    \/ \E outcome \in {"missing", "prefix", "none", "found", "raise"} :
          BalanceRequest("dym", outcome)
    \/ \E outcome \in {"status", "raise"} : FaucetStatus("dym", outcome)
    \/ \E hash_len \in HashLengths, outcome \in {"found", "raise"} :
          TransactionInfo("dym", hash_len, outcome)
    \/ Help("dym")
    \/ \E r \in {"alice", "carol"}, why \in {"missing", "prefix", "raise"} :
          TokenRequestInvalid("dym", r, why)
    \/ \E r \in {"alice", "carol"} : TokenRequestNoDenom("dym", r, "dym1aaa", "osmo-1")
    \/ \E r \in {"alice", "carol"} :
          TokenRequest("dym", r, "dym1aaa", node_chain_id("dym"), MaxRequests)
    \/ PutTask("dym")
    \/ GateAdmit("dym")
    \/ GateReject("dym", TRUE)
    \/ BalanceEnough("dym")
    \/ Drained("dym", TRUE)
    \/ TxSent("dym")
    \/ Replied("dym")
    \/ Saved("dym")
    \/ Raised("dym", TRUE)

CommandSpec == Init /\ [][CommandNext]_vars

-----------------------------------------------------------------------------
(* Vocabulary of the claims *)

\* the worker holds a dequeued item
Processing(c) == pc[c] \in {"get_balance", "tx_send", "reply", "save"}

\* the requests of client c accepted and not yet dequeued, oldest first
Waiting(c) == TRANSACTIONS_QUEUE[c] \o put_tasks[c]

\* the last step handled a dequeued item of client c and ended as kind says
Ended(c, kind) == ev.client = c /\ ev.kind = kind

\* the day tally of a network in a client's tallies
DayTally(tallies, network_id) == tallies[network_id].day_tally

\* the entry of principal p in ledger post is one the request made: it was not
\* in ledger pre, or replaced an entry of pre whose window was over
Created(pre, post, p) ==
    /\ p \in DOMAIN post
    /\ p \notin DOMAIN pre \/ pre[p].check_time # post[p].check_time

\* the request added one to the count of an entry of pre
Incremented(pre, post, p) ==
    /\ p \in DOMAIN post /\ p \in DOMAIN pre
    /\ pre[p].check_time = post[p].check_time
    /\ post[p].requests_count > pre[p].requests_count

\* principal p has an entry in requests whose window is open at instant t
Live(requests, p, t) == p \in DOMAIN requests /\ requests[p].check_time > t

-----------------------------------------------------------------------------
(* C1 *)

\* C1: the worker never terminates because of the outcome of one request:
\* after an item was rejected by the rate-limit gate, found the faucet drained
\* or failed with an exception, the worker is running and waits for the next
\* item of the queue.
C1_WorkerOutlivesEveryOutcome ==
    \A c \in CLIENTS :
        (Ended(c, "rejected") \/ Ended(c, "drained") \/ Ended(c, "exception"))
            => pc[c] = "get"

-----------------------------------------------------------------------------
(* C2 *)

\* C2: the items a client's worker dequeues are the accepted requests in the
\* order token_request accepted them: the k-th item dequeued is the k-th
\* accepted, the waiting ones follow in order; and after an item whose
\* processing raised an exception the worker is running and takes the next one.
C2_FifoAndExceptionIsolated ==
    \A c \in CLIENTS :
        /\ ndeq[c] + Len(Waiting(c)) = nacc[c]
        /\ \A i \in 1..Len(Waiting(c)) : Waiting(c)[i].id = ndeq[c] + i
        /\ Processing(c) => cur[c].item.id = ndeq[c]
        /\ Ended(c, "exception") => pc[c] = "get"
        /\ (Ended(c, "admitted") /\ cur[c].after = "exception")
               => ev.item.id = ndeq[c] /\ Processing(c)

\* an item failed with an exception and the item accepted after it is being
\* processed
C2_Witness ==
    \E c \in CLIENTS :
        /\ cur[c].after = "exception"
        /\ pc[c] = "tx_send"
        /\ cur[c].item.id >= 2

-----------------------------------------------------------------------------
(* C3 *)

\* C3: every request token_request put on the queue is consumed exactly once
\* and, whatever happened to the requests before it, can still be consumed:
\* the item in the worker's hands is the one next in line, and while a request
\* waits the client's worker has not ended.
C3_QueuedItemsAreConsumed ==
    \A c \in CLIENTS :
        /\ Processing(c) => cur[c].item.id = ndeq[c]
        /\ Waiting(c) # <<>> => pc[c] \in {"get", "get_balance", "tx_send", "reply", "save"}

-----------------------------------------------------------------------------
(* C4 *)

\* C4: when the processing of an admitted request of a non-bypass requester
\* raised an exception, then after the worker finished the item the ledger of
\* the network holds no entry of the requester id and none of the address, and
\* the amount was subtracted from the network's day_tally.
C4_ExceptionRollsBack ==
    \A c \in CLIENTS :
        (Ended(c, "exception") /\ ev.item.author \notin CoreTeam) =>
            LET n == ev.item.network_id
            IN  /\ MemberId(ev.item.author) \notin DOMAIN ACTIVE_REQUESTS[c][n]
                /\ ev.item.address \notin DOMAIN ACTIVE_REQUESTS[c][n]
                /\ DayTally(NETWORKS_DAY_TALLY[c], n)
                       = DayTally(ev.pre_tally, n) - get_amount_to_send(c, n)

-----------------------------------------------------------------------------
(* C5 *)

\* C5: when the processing of a request of a core-team requester raised an
\* exception, the amount was subtracted from day_tally and the rate-limit
\* ledger is as it was.
C5_BypassExceptionRevertsCap ==
    \A c \in CLIENTS :
        (Ended(c, "exception") /\ ev.item.author \in CoreTeam) =>
            LET n == ev.item.network_id
            IN  /\ DayTally(NETWORKS_DAY_TALLY[c], n)
                       = DayTally(ev.pre_tally, n) - get_amount_to_send(c, n)
                /\ ACTIVE_REQUESTS[c] = ev.pre_requests

-----------------------------------------------------------------------------
(* C6 *)

\* C6: when the worker found the faucet balance missing or too small, the
\* amount was subtracted from day_tally, no ledger entry the request created
\* and no count it incremented is left, the reply says the faucet is drained,
\* and the item never reached tx_send.
C6_DrainedRollsBackBoth ==
    \A c \in CLIENTS :
        Ended(c, "drained") =>
            LET n == ev.item.network_id
            IN  /\ DayTally(NETWORKS_DAY_TALLY[c], n)
                       = DayTally(ev.pre_tally, n) - get_amount_to_send(c, n)
                /\ \A p \in {MemberId(ev.item.author), ev.item.address} :
                       /\ ~Created(ev.gate_requests, ACTIVE_REQUESTS[c][n], p)
                       /\ ~Incremented(ev.gate_requests, ACTIVE_REQUESTS[c][n], p)
                /\ ~ev.raised => ev.reply = "Faucet is drained out"
                /\ ev.stage = "get_balance"

-----------------------------------------------------------------------------
(* C7 *)

\* C7: a request the rate-limit gate rejects has no net effect on day_tally:
\* after the rejection the tally of the day counted for the network is what it
\* would be without the request: lower by the amount when the reservation of
\* the request is part of it, and unchanged when the tally was started anew,
\* on a later day, after the reservation.
C7_RejectionLeavesNoNetTally ==
    \A c \in CLIENTS :
        Ended(c, "rejected") =>
            LET n == ev.item.network_id
            IN  DayTally(NETWORKS_DAY_TALLY[c], n)
                    = DayTally(ev.pre_tally, n)
                        - (IF Today(ev.item.at) = ev.pre_tally[n].active_day
                           THEN get_amount_to_send(c, n) ELSE 0)

-----------------------------------------------------------------------------
(* C8 *)

\* the item is a request token_request enqueued and acknowledged as accepted
Accepted(c, item) == item.id \in 1..nacc[c]

\* C8 as stated: rate-limit rejections are decided before the queue: no
\* request that was enqueued and acknowledged as accepted is afterwards
\* rejected by the rate-limit gate.
C8_NoRejectionAfterAcceptance ==
    \A c \in CLIENTS : Ended(c, "rejected") => ~Accepted(c, ev.item)

\* C8 as amended: a request refused for the daily cap never reaches the queue;
\* the rate-limit gate decides in the worker, on dequeued requests that were
\* accepted; and a dequeued request neither of whose principals has a window
\* still open passes the gate and goes on to the balance check and the transfer.
C8_CapBeforeQueueGateAfter ==
    \A c \in CLIENTS :
        /\ Ended(c, "cap_refused")
               => nacc[c] = ev.pre_nacc /\ Len(Waiting(c)) = ev.pre_waiting
        /\ Ended(c, "rejected") => Accepted(c, ev.item) /\ ev.stage = "get"
        /\ (ev.client = c /\ ev.stage = "get" /\ ev.kind \in {"admitted", "rejected"}
              /\ ~Live(ev.pre_requests[ev.item.network_id],
                       MemberId(ev.item.author), ev.at)
              /\ ~Live(ev.pre_requests[ev.item.network_id], ev.item.address, ev.at))
               => ev.kind = "admitted" /\ pc[c] = "get_balance"

\* a request was accepted while its requester's count stood at the cap in an
\* open window, waited in the queue until the window was over, and was admitted
C8_Witness ==
    \E c \in CLIENTS :
        /\ Ended(c, "admitted")
        /\ ev.item.author \notin CoreTeam
        /\ LET requests == ev.pre_requests[ev.item.network_id]
               p == MemberId(ev.item.author)
           IN  /\ p \in DOMAIN requests
               /\ requests[p].requests_count
                      >= get_token_requests_cap(c, ev.item.network_id)
               /\ requests[p].check_time > ev.item.at
               /\ requests[p].check_time <= ev.at

-----------------------------------------------------------------------------
(* C9 *)

\* the last step ran check_time_limits for a dequeued request of client c
Gated(c) ==
    /\ ev.client = c /\ ev.stage = "get"
    /\ ev.kind \in {"admitted", "rejected"}
    /\ ev.item.author \notin CoreTeam

\* C9 as stated: for a principal P of the request (requester id or address)
\* that holds an entry whose window is open, with C the cap of the network: the
\* attempt is rejected when P's count equals C, and when the count is below C
\* the attempt is not blocked by P and adds exactly one to P's count.
C9_CountGate ==
    \A c \in CLIENTS :
        Gated(c) =>
            LET n == ev.item.network_id
                pre == ev.pre_requests[n]
                post == ACTIVE_REQUESTS[c][n]
                cap == get_token_requests_cap(c, n)
            IN  \A p \in {MemberId(ev.item.author), ev.item.address} :
                    Live(pre, p, ev.at) =>
                        /\ pre[p].requests_count = cap => ev.kind = "rejected"
                        /\ pre[p].requests_count < cap =>
                               /\ ev.gate.blocked_by # p
                               /\ p \in DOMAIN post
                               /\ post[p] = [pre[p] EXCEPT !.requests_count = @ + 1]

\* C9 as amended: the same, except that the address's count is left as it was
\* when the requester's own entry rejected the request, since the address is
\* looked at only after the requester passed.
C9_CountGateInOrder ==
    \A c \in CLIENTS :
        Gated(c) =>
            LET n == ev.item.network_id
                pre == ev.pre_requests[n]
                post == ACTIVE_REQUESTS[c][n]
                cap == get_token_requests_cap(c, n)
                requester == MemberId(ev.item.author)
            IN  \A p \in {requester, ev.item.address} :
                    Live(pre, p, ev.at) =>
                        /\ pre[p].requests_count = cap => ev.kind = "rejected"
                        /\ pre[p].requests_count < cap =>
                               /\ ev.gate.blocked_by # p
                               /\ p \in DOMAIN post
                               /\ IF p = ev.item.address /\ ev.gate.blocked_by = requester
                                  THEN post[p] = pre[p]
                                  ELSE post[p] = [pre[p] EXCEPT !.requests_count = @ + 1]

\* a request whose requester, below the cap, was counted once more, and whose
\* address, at the cap in an open window, rejected it
C9_Witness ==
    \E c \in CLIENTS :
        /\ Gated(c)
        /\ ev.kind = "rejected"
        /\ ev.gate.blocked_by = ev.item.address
        /\ LET n == ev.item.network_id
               p == MemberId(ev.item.author)
           IN  /\ Live(ev.pre_requests[n], p, ev.at)
               /\ ev.pre_requests[n][p].requests_count < get_token_requests_cap(c, n)
               /\ ACTIVE_REQUESTS[c][n][p].requests_count
                      = ev.pre_requests[n][p].requests_count + 1

-----------------------------------------------------------------------------
(* C10 *)

\* the counts of the requester and of the address after the gate
CountsAre(c, item, k) ==
    LET requests == ACTIVE_REQUESTS[c][item.network_id]
    IN  /\ MemberId(item.author) \in DOMAIN requests
        /\ item.address \in DOMAIN requests
        /\ requests[MemberId(item.author)].requests_count = k
        /\ requests[item.address].requests_count = k

\* C10: with request cap 2 and a request_timeout of 6 hours, four requests by
\* the same requester for the same address at t=0, 1, 2 and 6h+1 seconds end,
\* in order: admitted with count 1, admitted with count 2, rejected with about
\* 6 hours left to wait, admitted in a fresh window with count 1; so once the
\* four are made and nothing is left in progress, all four went through the gate.
C10_FourRequests ==
    \A c \in CLIENTS :
        /\ (Gated(c) /\ ev.item.id = 1) => ev.kind = "admitted" /\ CountsAre(c, ev.item, 1)
        /\ (Gated(c) /\ ev.item.id = 2) => ev.kind = "admitted" /\ CountsAre(c, ev.item, 2)
        /\ (Gated(c) /\ ev.item.id = 3) =>
               /\ ev.kind = "rejected"
               /\ ev.gate.seconds_left = request_timeout - 2
        /\ (Gated(c) /\ ev.item.id = 4) =>
               /\ ev.kind = "admitted" /\ CountsAre(c, ev.item, 1)
               /\ ACTIVE_REQUESTS[c][ev.item.network_id][ev.item.address].check_time
                      = ScenarioTimes[4] + request_timeout
        /\ (nacc[c] = 4 /\ ~Processing(c)
              /\ (pc[c] = "returned" \/ TRANSACTIONS_QUEUE[c] \o put_tasks[c] = <<>>))
               => ndeq[c] = 4

-----------------------------------------------------------------------------
(* C11 *)

\* the last step admitted a request of a requester who is not of the core team
GateAdmitted(c) == Gated(c) /\ ev.kind = "admitted"

-----------------------------------------------------------------------------
(* C12 *)

\* C12: for every client and network id the amounts handed over by successful
\* tx_send calls within one calendar day never add up to more than
\* get_daily_cap(network id).
C12_DailyCapBoundsTransfers ==
    \A c \in CLIENTS : \A n \in DOMAIN sent[c] :
        sent[c][n].sum <= get_daily_cap(c, n)

-----------------------------------------------------------------------------
(* C13 *)

\* the last step was token_request reaching check_daily_cap for client c
Reserving(c) == ev.client = c /\ ev.kind \in {"accepted", "cap_refused"}

\* C13: on a day for which the network has a tally, check_daily_cap returns
\* true and adds the amount exactly when day_tally + amount <= daily_cap, and
\* otherwise returns false and leaves the tally as it was; with daily_cap 1000
\* and amount 300 the reservations of a day find the tally at 300, 600 or 900,
\* and the one that finds 900 is refused and leaves 900.
C13_ReserveWithinCap ==
    \A c \in CLIENTS :
        Reserving(c) =>
            LET n == ev.item.network_id
                pre == ev.pre_tally
                post == NETWORKS_DAY_TALLY[c]
                amount == get_amount_to_send(c, n)
                cap == get_daily_cap(c, n)
            IN  (n \in DOMAIN pre /\ pre[n].active_day = Today(ev.at)) =>
                    /\ ev.kind = "accepted" <=> pre[n].day_tally + amount <= cap
                    /\ ev.kind = "accepted" =>
                           post = [pre EXCEPT ![n].day_tally = @ + amount]
                    /\ ev.kind = "cap_refused" => post = pre
                    /\ (cap = 1000 /\ amount = 300) =>
                           /\ pre[n].day_tally \in {300, 600, 900}
                           /\ ev.kind = "cap_refused" <=> pre[n].day_tally = 900

\* the fourth reservation of a day with daily_cap 1000 and amount 300 was
\* refused and left the tally at 900
C13_Witness ==
    \E c \in CLIENTS :
        /\ Reserving(c) /\ ev.kind = "cap_refused"
        /\ get_daily_cap(c, ev.item.network_id) = 1000
        /\ get_amount_to_send(c, ev.item.network_id) = 300
        /\ ev.pre_tally[ev.item.network_id].day_tally = 900
        /\ NETWORKS_DAY_TALLY[c][ev.item.network_id].day_tally = 900

-----------------------------------------------------------------------------
(* C14 *)

\* C14: a request refused because the daily cap is reached leaves no
\* rate-limit admission behind: every network's ledger has the entries and
\* the counts it had before (a network that had no ledger has an empty one),
\* and the request is not enqueued.
C14_CapRefusalLeavesLedger ==
    \A c \in CLIENTS :
        Ended(c, "cap_refused") =>
            /\ \A n \in DOMAIN ACTIVE_REQUESTS[c] :
                   ACTIVE_REQUESTS[c][n]
                       = IF n \in DOMAIN ev.pre_requests THEN ev.pre_requests[n]
                         ELSE EmptyDict
            /\ nacc[c] = ev.pre_nacc
            /\ Len(Waiting(c)) = ev.pre_waiting

\* a request of a requester who is not of the core team was refused for the
\* daily cap while the ledger of its network held entries
C14_Witness ==
    \E c \in CLIENTS :
        /\ Ended(c, "cap_refused")
        /\ ev.pre_requests[ev.item.network_id] # EmptyDict
        /\ ACTIVE_REQUESTS[c][ev.item.network_id] = ev.pre_requests[ev.item.network_id]

-----------------------------------------------------------------------------
(* C15 *)

\* C15: the first check_daily_cap call for a network on a day other than the
\* tally's active_day, or when the network has no tally, succeeds and sets the
\* tally to {active_day: today, day_tally: amount}.
C15_NewDayStartsAtAmount ==
    \A c \in CLIENTS :
        Reserving(c) =>
            LET n == ev.item.network_id
                pre == ev.pre_tally
            IN  (n \notin DOMAIN pre \/ pre[n].active_day # Today(ev.at)) =>
                    /\ ev.kind = "accepted"
                    /\ NETWORKS_DAY_TALLY[c][n]
                           = [active_day |-> Today(ev.at),
                              day_tally |-> get_amount_to_send(c, n)]

\* a reservation on a new day succeeded although the tally left from the day
\* before had no room for the amount
C15_Witness ==
    \E c \in CLIENTS :
        /\ Reserving(c) /\ ev.kind = "accepted"
        /\ LET n == ev.item.network_id
           IN  /\ n \in DOMAIN ev.pre_tally
               /\ ev.pre_tally[n].active_day < Today(ev.at)
               /\ ev.pre_tally[n].day_tally + get_amount_to_send(c, n)
                      > get_daily_cap(c, n)
               /\ NETWORKS_DAY_TALLY[c][n].day_tally = get_amount_to_send(c, n)

-----------------------------------------------------------------------------
(* C16 *)

\* the tally of network n of client c after a reservation made now and
\* reverted at once
ReservedAndReverted(c, n) ==
    revert_daily_consume(
        check_daily_cap(NETWORKS_DAY_TALLY[c], n, get_amount_to_send(c, n),
                        get_daily_cap(c, n), Today(now)).tallies,
        n, get_amount_to_send(c, n))

\* check_daily_cap succeeds now for network n of client c, which has a tally
CanReserve(c, n) ==
    /\ n \in DOMAIN NETWORKS_DAY_TALLY[c]
    /\ check_daily_cap(NETWORKS_DAY_TALLY[c], n, get_amount_to_send(c, n),
                       get_daily_cap(c, n), Today(now)).ok

\* C16 as stated: a successful check_daily_cap followed at once by
\* revert_daily_consume for the same network restores day_tally to the value
\* it had before the reservation, for every starting tally, also one left
\* over from an earlier day.
C16_RevertRestoresTally ==
    \A c \in CLIENTS : \A n \in NetworkIds(c) :
        CanReserve(c, n) =>
            DayTally(ReservedAndReverted(c, n), n) = DayTally(NETWORKS_DAY_TALLY[c], n)

\* C16 as amended: the pair restores the tally exactly when the tally is of
\* today; when the tally was left over from another day the reservation
\* starts today's tally and the revert leaves it at 0.
C16_RevertRestoresTodaysTally ==
    \A c \in CLIENTS : \A n \in NetworkIds(c) :
        CanReserve(c, n) =>
            IF NETWORKS_DAY_TALLY[c][n].active_day = Today(now)
            THEN ReservedAndReverted(c, n) = NETWORKS_DAY_TALLY[c]
            ELSE ReservedAndReverted(c, n)[n] = [active_day |-> Today(now), day_tally |-> 0]

\* a tally above 0 is left over from an earlier day, and a reservation
\* reverted at once leaves today's tally at 0
C16_Witness ==
    \E c \in CLIENTS : \E n \in NetworkIds(c) :
        /\ CanReserve(c, n)
        /\ NETWORKS_DAY_TALLY[c][n].active_day < Today(now)
        /\ NETWORKS_DAY_TALLY[c][n].day_tally > 0
        /\ DayTally(ReservedAndReverted(c, n), n) = 0

-----------------------------------------------------------------------------
(* C17 *)

\* C17: at any time at most one tx_send call per client is in flight: the
\* only task that calls tx_send is the client's one worker, it calls tx_send
\* when its call before has returned, and while the call is in flight it
\* holds the item it dequeued last and takes no other.
C17_OneTransferInFlight ==
    \A c \in CLIENTS :
        /\ pc[c] = "tx_send" =>
               /\ worker_tasks[c] = 1
               /\ cur[c].item.id = ndeq[c]
        /\ Ended(c, "balance_ok") => ev.stage = "get_balance" /\ pc[c] = "tx_send"
        /\ (ev.client = c /\ ev.kind \in {"admitted", "rejected"}) => ev.stage = "get"

\* a request arrived while a transfer was in flight and two more were waiting
C17_Witness ==
    \E c \in CLIENTS :
        /\ pc[c] = "tx_send"
        /\ Ended(c, "accepted") /\ ev.stage = "tx_send"
        /\ Len(Waiting(c)) >= 2

-----------------------------------------------------------------------------
(* C18 *)

\* C18: for each client at most one worker task exists at any time, whatever
\* the number of messages: the client's slot of TRANSACTIONS_QUEUE_TASKS holds
\* a task exactly when one was created, and no second one is created.
C18_OneWorkerTask ==
    \A c \in CLIENTS :
        /\ worker_tasks[c] <= 1
        /\ worker_tasks[c] = 1 <=> TRANSACTIONS_QUEUE_TASKS[c] = "Task"
        /\ worker_tasks[c] = 0 <=> pc[c] = "none"

\* a message arrived for a client whose worker task had been created before,
\* and the client still has one worker task
C18_Witness ==
    \E c \in CLIENTS :
        /\ Ended(c, "accepted")
        /\ ev.stage \in {"get", "get_balance", "tx_send", "reply", "save", "returned"}
        /\ ev.pre_nacc >= 1
        /\ worker_tasks[c] = 1

-----------------------------------------------------------------------------
(* C19 *)

\* the last step was a command handler of client c answering a message
Commanded(c) ==
    /\ ev.client = c
    /\ ev.kind \in {"balance", "faucet_status", "tx_info", "help", "invalid",
                    "no_denom", "cap_refused", "accepted"}

\* the last step was the worker of client c handling a dequeued request
Worked(c) ==
    /\ ev.client = c
    /\ ev.kind \in {"admitted", "rejected", "balance_ok", "drained", "sent",
                    "replied", "saved", "exception"}

-----------------------------------------------------------------------------
(* C20 *)

\* C20: when get_balance or tx_send raises for a queued request, the
\* requester gets GENERIC_ERROR_MESSAGE as the reply, whether of the core
\* team or not.
C20_FailureGetsGenericReply ==
    \A c \in CLIENTS :
        (Ended(c, "exception") /\ ev.stage \in {"get_balance", "tx_send"})
            => ev.reply = GENERIC_ERROR_MESSAGE

-----------------------------------------------------------------------------
(* C21 *)

\* the amount the tally of network n holds for the day of instant t
Booked(tallies, n, t) ==
    IF n \in DOMAIN tallies /\ tallies[n].active_day = Today(t)
    THEN tallies[n].day_tally ELSE 0

\* C21: a request of a core team member is never rejected by the rate-limit
\* gate and nothing the worker does for it creates or changes an entry of the
\* rate-limit ledger; token_request still holds it to the daily cap: it is
\* refused when the amount no longer fits under the cap of the day, and when
\* it is accepted its amount is added to the day tally.
C21_CoreTeamBypassesGateOnly ==
    \A c \in CLIENTS :
        /\ (Worked(c) /\ ev.item.author \in CoreTeam) =>
               /\ ev.kind # "rejected"
               /\ ACTIVE_REQUESTS[c] = ev.pre_requests
        /\ (Reserving(c) /\ ev.item.author \in CoreTeam) =>
               LET n == ev.item.network_id
                   amount == get_amount_to_send(c, n)
                   booked == Booked(ev.pre_tally, n, ev.at)
               IN  /\ ACTIVE_REQUESTS[c] = WithNetwork(ev.pre_requests, n)
                   /\ ev.kind = "cap_refused" <=> booked + amount > get_daily_cap(c, n)
                   /\ ev.kind = "cap_refused" =>
                          Booked(NETWORKS_DAY_TALLY[c], n, ev.at) = booked
                   /\ ev.kind = "accepted" =>
                          Booked(NETWORKS_DAY_TALLY[c], n, ev.at) = booked + amount

\* a core team member's request is admitted although the address is at the
\* cap in an open window, on a day whose tally has no room for another amount
C21_Witness ==
    \E c \in CLIENTS :
        /\ Ended(c, "admitted") /\ ev.item.author \in CoreTeam
        /\ LET n == ev.item.network_id
           IN  /\ Live(ACTIVE_REQUESTS[c][n], ev.item.address, ev.at)
               /\ ACTIVE_REQUESTS[c][n][ev.item.address].requests_count
                      >= get_token_requests_cap(c, n)
               /\ Booked(NETWORKS_DAY_TALLY[c], n, ev.at) + get_amount_to_send(c, n)
                      > get_daily_cap(c, n)

-----------------------------------------------------------------------------
(* C22 *)

\* principal p holds an entry of requests whose window is open at instant t
\* and whose count has reached cap
AtCap(requests, p, t, cap) ==
    Live(requests, p, t) /\ requests[p].requests_count >= cap

\* C22: check_time_limits rejects a request whenever the requester id holds an
\* entry with an open window and a count at the cap, and also whenever the
\* destination address holds one, whatever the other principal's entry is:
\* absent, expired, below the cap or at the cap.
C22_EitherPrincipalBlocks ==
    \A c \in CLIENTS :
        Gated(c) =>
            LET n == ev.item.network_id
                pre == ev.pre_requests[n]
                cap == get_token_requests_cap(c, n)
                requester == MemberId(ev.item.author)
            IN  /\ AtCap(pre, requester, ev.at, cap) =>
                       ev.kind = "rejected" /\ ev.gate.blocked_by = requester
                /\ AtCap(pre, ev.item.address, ev.at, cap) => ev.kind = "rejected"
                /\ (AtCap(pre, ev.item.address, ev.at, cap)
                        /\ ~AtCap(pre, requester, ev.at, cap)) =>
                       ev.gate.blocked_by = ev.item.address

\* a requester who has no entry at all is rejected because of the address
C22_Witness ==
    \E c \in CLIENTS :
        /\ Gated(c) /\ ev.kind = "rejected"
        /\ LET pre == ev.pre_requests[ev.item.network_id]
           IN  /\ MemberId(ev.item.author) \notin DOMAIN pre
               /\ AtCap(pre, ev.item.address, ev.at,
                        get_token_requests_cap(c, ev.item.network_id))

-----------------------------------------------------------------------------
(* C23 *)

\* C23: transaction_info answers every hash whose length is not exactly 64
\* with a reply of its own and does not call get_tx_info for it; get_tx_info
\* is called only, and once, for a hash of 64 characters.
C23_OnlyFullHashesAreLookedUp ==
    \A c \in CLIENTS :
        Ended(c, "tx_info") =>
            /\ ev.param # 64 =>
                   /\ ev.calls = 0
                   /\ ~ev.raised
                   /\ ev.reply \in {"Missing transaction hash ID",
                                    "Hash ID must be 64 characters long"}
            /\ ev.calls > 0 => ev.param = 64
            /\ ev.param = 64 => ev.calls = 1

\* a hash one character too long is refused without a lookup
C23_Witness ==
    \E c \in CLIENTS :
        /\ Ended(c, "tx_info")
        /\ ev.param = 65
        /\ ev.calls = 0
        /\ ev.reply = "Hash ID must be 64 characters long"

-----------------------------------------------------------------------------
(* C24 *)

\* C24: a $request that fails address validation (address missing, wrong
\* prefix, or check_address raising) leaves the daily tally, the rate-limit
\* ledger and the dispatch queue of every client as they were, and so do
\* $balance, $faucet_status and $tx_info.
C24_RefusedAndReadOnlyChangeNothing ==
    [][ev'.kind \in {"invalid", "balance", "faucet_status", "tx_info"} =>
           UNCHANGED <<NETWORKS_DAY_TALLY, ACTIVE_REQUESTS, TRANSACTIONS_QUEUE,
                       put_tasks>>]_vars

\* a $request whose check_address raised, handled while the client had a
\* tally, entries in its ledger and requests waiting in its queue
C24_Witness ==
    \E c \in CLIENTS :
        /\ Ended(c, "invalid") /\ ev.raised
        /\ TRANSACTIONS_QUEUE[c] # <<>>
        /\ \E n \in DOMAIN ACTIVE_REQUESTS[c] : ACTIVE_REQUESTS[c][n] # EmptyDict
        /\ \E n \in DOMAIN NETWORKS_DAY_TALLY[c] : NETWORKS_DAY_TALLY[c][n].day_tally > 0

-----------------------------------------------------------------------------
(* C25 *)

\* C25: the clients share no mutable state: whatever is handled for one
\* client (request, dispatch, rejection, rollback) leaves the rate-limit
\* ledger, the daily tally, the dispatch queue and the worker of every other
\* client as they were.
C25_ClientsShareNothing ==
    [][\A c \in CLIENTS :
           ev'.client = c =>
               \A d \in CLIENTS \ {c} :
                   UNCHANGED <<ACTIVE_REQUESTS[d], NETWORKS_DAY_TALLY[d],
                               TRANSACTIONS_QUEUE[d], put_tasks[d],
                               TRANSACTIONS_QUEUE_TASKS[d], pc[d], cur[d]>>]_vars

\* a request of one client is rejected and rolled back while the other client
\* holds entries and a tally, has a request waiting and a transfer in flight
C25_Witness ==
    \E c \in CLIENTS : \E d \in CLIENTS \ {c} :
        /\ Ended(c, "rejected")
        /\ NETWORKS_DAY_TALLY[c] # ev.pre_tally
        /\ pc[d] = "tx_send"
        /\ Waiting(d) # <<>>
        /\ \E n \in DOMAIN ACTIVE_REQUESTS[d] : ACTIVE_REQUESTS[d][n] # EmptyDict
        /\ \E n \in DOMAIN NETWORKS_DAY_TALLY[d] : NETWORKS_DAY_TALLY[d][n].day_tally > 0

-----------------------------------------------------------------------------
(* C26 *)

\* a $request by alice for network n of client c is taken now: it passes
\* check_daily_cap, its put task is created and it is acknowledged, and the
\* worker stays where it is
TakenNow(c, n) ==
    /\ TokenRequest(c, "alice", "dym1aaa", n, MaxRequests)
    /\ ev'.kind = "accepted"
    /\ ev'.reply = "Request accepted and is in queue"
    /\ Len(put_tasks'[c]) = Len(put_tasks[c]) + 1
    /\ pc'[c] = pc[c]

\* C26: while the worker of a client is suspended awaiting tx_send, a new
\* $request for the same client does not wait for that transfer: whenever the
\* day's cap has room for it, it can pass check_daily_cap, be enqueued and be
\* acknowledged at once; and a request accepted in that state leaves the
\* transfer in flight and is one more request waiting.
C26_AdmissionDoesNotWaitForDispatch ==
    \A c \in CLIENTS :
        /\ (pc[c] = "tx_send" /\ nacc[c] < MaxRequests) =>
               \A n \in NetworkIds(c) :
                   check_daily_cap(NETWORKS_DAY_TALLY[c], n, get_amount_to_send(c, n),
                                   get_daily_cap(c, n), Today(now)).ok
                       => ENABLED TakenNow(c, n)
        /\ (Ended(c, "accepted") /\ ev.stage = "tx_send") =>
               /\ pc[c] = "tx_send"
               /\ nacc[c] = ev.pre_nacc + 1
               /\ Len(Waiting(c)) = ev.pre_waiting + 1

\* a request was accepted and acknowledged while the transfer of the one before
\* it was in flight, and it is the only one waiting
C26_Witness ==
    \E c \in CLIENTS :
        /\ pc[c] = "tx_send"
        /\ Ended(c, "accepted") /\ ev.stage = "tx_send"
        /\ ev.reply = "Request accepted and is in queue"
        /\ ev.item.id = cur[c].item.id + 1
        /\ Waiting(c) = <<ev.item>>

-----------------------------------------------------------------------------
(* C27 *)

\* the number of lines of the audit file written for item id of client c
Records(c, id) ==
    Cardinality({i \in 1..Len(transactions_csv) : transactions_csv[i] = <<c, id>>})

\* C27: the audit file holds exactly one record per completed transfer: a
\* record is written only for an item whose tx_send returned a hash, and when
\* the worker is done with such an item there is exactly one record for it,
\* also when the reply that reports the success could not be sent.
C27_OneRecordPerTransfer ==
    \A c \in CLIENTS :
        /\ \A id \in 1..nacc[c] : Records(c, id) <= 1
        /\ Ended(c, "saved") => ev.stage = "save" /\ Records(c, ev.item.id) = 1
        /\ (Ended(c, "exception") /\ ev.stage = "reply") => Records(c, ev.item.id) = 1

-----------------------------------------------------------------------------
(* C28 *)

\* the admissions of client c, on the network of its i-th admission and not
\* before it, that principal p takes part in within a span shorter than
\* request_timeout
AdmissionsFrom(c, i, p) ==
    {j \in 1..Len(admitted[c]) :
        /\ admitted[c][j].network_id = admitted[c][i].network_id
        /\ p \in {admitted[c][j].requester, admitted[c][j].address}
        /\ admitted[c][j].at >= admitted[c][i].at
        /\ admitted[c][j].at < admitted[c][i].at + request_timeout}

\* C28: within any span of time shorter than request_timeout no requester id
\* and no destination address takes part in more than C admitted requests on
\* one network, C being the request cap of the network, however requesters
\* and addresses are paired.
C28_NoPrincipalPastCap ==
    \A c \in CLIENTS : \A i \in 1..Len(admitted[c]) :
        LET cap == get_token_requests_cap(c, admitted[c][i].network_id)
        IN  /\ Cardinality(AdmissionsFrom(c, i, admitted[c][i].requester)) <= cap
            /\ Cardinality(AdmissionsFrom(c, i, admitted[c][i].address)) <= cap

-----------------------------------------------------------------------------
(* C29 *)

\* the last step ran check_time_limits for a request of client c and rejected it
GateRejected(c) == Gated(c) /\ ev.kind = "rejected"

\* C29 as stated: a check_time_limits call that rejects the request leaves
\* the requests_count and check_time of every entry whose window is open as
\* they were: a rejected request uses up no admission of the requester and
\* none of the address.
C29_RejectionLeavesEntries ==
    \A c \in CLIENTS :
        GateRejected(c) =>
            LET pre == ev.pre_requests[ev.item.network_id]
                post == ACTIVE_REQUESTS[c][ev.item.network_id]
            IN  \A p \in DOMAIN pre :
                    Live(pre, p, ev.at) => p \in DOMAIN post /\ post[p] = pre[p]

\* C29 as amended: a rejection by the requester's entry leaves the whole
\* ledger as it was. A rejection by the address's entry leaves every entry
\* but the requester's as it was, the address's included; the requester's
\* sub-check ran first and its effect stays: an open entry below the cap is
\* counted once more, an entry whose window is over is removed.
C29_RejectionKeepsRequesterSubCheck ==
    \A c \in CLIENTS :
        GateRejected(c) =>
            LET pre == ev.pre_requests[ev.item.network_id]
                post == ACTIVE_REQUESTS[c][ev.item.network_id]
                requester == MemberId(ev.item.author)
            IN  /\ ev.gate.blocked_by \in {requester, ev.item.address}
                /\ ev.gate.blocked_by = requester => post = pre
                /\ ev.gate.blocked_by = ev.item.address =>
                       /\ \A p \in DOMAIN pre \ {requester} :
                              p \in DOMAIN post /\ post[p] = pre[p]
                       /\ DOMAIN post \subseteq DOMAIN pre
                       /\ Live(pre, requester, ev.at) =>
                              /\ requester \in DOMAIN post
                              /\ post[requester] =
                                     [pre[requester] EXCEPT !.requests_count = @ + 1]
                       /\ ~Live(pre, requester, ev.at) => requester \notin DOMAIN post

\* the address rejects a request, the rejection is told to the requester, and
\* the requester's open entry went from one request to two
C29_Witness ==
    \E c \in CLIENTS :
        /\ GateRejected(c) /\ ~ev.raised
        /\ ev.gate.blocked_by = ev.item.address
        /\ LET pre == ev.pre_requests[ev.item.network_id]
               post == ACTIVE_REQUESTS[c][ev.item.network_id]
               requester == MemberId(ev.item.author)
           IN  /\ Live(pre, requester, ev.at)
               /\ pre[requester].requests_count = 1
               /\ post[requester].requests_count = 2
               /\ post[ev.item.address] = pre[ev.item.address]

-----------------------------------------------------------------------------
(* C30 *)

\* the requests of client c for network n, waiting or with the worker, whose
\* amount was reserved on day d: reservations nothing has rolled back so far
Outstanding(c, n, d) ==
    LET held == IF Processing(c) THEN <<cur[c].item>> ELSE <<>>
        items == held \o Waiting(c)
    IN  {i \in 1..Len(items) :
            items[i].network_id = n /\ Today(items[i].at) = d}

\* C30: for every network, day_tally is the amount per request times the
\* number of reservations made on active_day and not rolled back: it is never
\* negative, it covers every request reserved on active_day that is still
\* waiting or being processed, and rolling back a reservation made on an
\* earlier day does not lower it.
C30_TallyCountsReservations ==
    \A c \in CLIENTS :
        /\ \A n \in DOMAIN NETWORKS_DAY_TALLY[c] :
               LET tally == NETWORKS_DAY_TALLY[c][n]
               IN  /\ tally.day_tally >= 0
                   /\ tally.day_tally >=
                          get_amount_to_send(c, n)
                              * Cardinality(Outstanding(c, n, tally.active_day))
        /\ (Worked(c) /\ Today(ev.item.at) # ev.pre_tally[ev.item.network_id].active_day) =>
               NETWORKS_DAY_TALLY[c][ev.item.network_id].day_tally
                   >= ev.pre_tally[ev.item.network_id].day_tally

-----------------------------------------------------------------------------
(* C31 *)

\* the outcomes after which tx_send goes to its next turn
Retried == {"not_dict", "no_code", "code_nonzero", "code_0_no_hash"}

\* the outcomes of the executes tx_send made before its latest one
Earlier == {tx_send_call.outcomes[i] : i \in 1..(Len(tx_send_call.outcomes) - 1)}

\* the outcomes of all the executes tx_send made
Made == {tx_send_call.outcomes[i] : i \in 1..Len(tx_send_call.outcomes)}

\* what the latest execute came to
Latest == tx_send_call.outcomes[Len(tx_send_call.outcomes)]

\* tx_send has returned or raised
TxSendEnded == tx_send_call.pc \in {"returned", "raised"}

\* C31 as stated: tx_send makes at most 5 attempts; it returns after the
\* first attempt whose response code is 0; it raises after 5 attempts that
\* gave a non-zero code or an unreadable response; and only a failed
\* subprocess (non-zero exit status) ends it at once without a retry.
C31_TxSendRetriesAllButExit ==
    /\ tx_send_call.attempts <= TxSendAttempts
    /\ tx_send_call.pc = "returned" =>
           /\ Latest = "code_0"
           /\ Earlier \cap {"code_0", "code_0_no_hash"} = {}
    /\ tx_send_call.pc = "raised" =>
           \/ tx_send_call.attempts = TxSendAttempts /\ "exit" \notin Earlier
           \/ Latest = "exit"
    /\ tx_send_call.pc = "running" =>
           Made \subseteq {"not_json", "not_dict", "no_code", "code_nonzero"}

\* where a call of tx_send can stand, and how it got there
TxSendShape ==
    /\ tx_send_call.attempts = Len(tx_send_call.outcomes)
    /\ tx_send_call.attempts <= TxSendAttempts
    /\ Earlier \subseteq Retried
    /\ tx_send_call.pc = "running" =>
           /\ tx_send_call.attempts < TxSendAttempts
           /\ tx_send_call.attempts > 0 => Latest \in Retried
    /\ tx_send_call.pc = "returned" => Latest = "code_0"
    /\ tx_send_call.pc = "raised" =>
           \/ /\ tx_send_call.error = "CalledProcessError" /\ Latest = "exit"
           \/ /\ tx_send_call.error = "JSONDecodeError" /\ Latest = "not_json"
           \/ /\ tx_send_call.error = "Exception"
              /\ tx_send_call.attempts = TxSendAttempts
              /\ Latest \in Retried

\* C31 as amended: provided every subprocess ends, tx_send ends after at most
\* 5 attempts. It returns the hash of the first attempt whose response has
\* code 0 and a txhash, and makes no attempt after it. An attempt is followed
\* by the next one when its response is JSON but not an object, has no code,
\* has a non-zero code, or has code 0 and no txhash; after 5 such attempts
\* tx_send raises. A failed subprocess and an output that is not JSON both
\* end tx_send at once, with the exception of execute and without a retry.
C31_TxSendEndsWithinFive ==
    /\ []TxSendShape
    /\ (tx_send_call.pc = "running") ~> TxSendEnded

\* an attempt with code 0 and no txhash was retried, and the output of the
\* next attempt, which was not JSON, ended tx_send at its second attempt
C31_Witness ==
    /\ tx_send_call.pc = "raised"
    /\ tx_send_call.error = "JSONDecodeError"
    /\ tx_send_call.outcomes = <<"code_0_no_hash", "not_json">>

====
